---- MODULE Spec2Model ----
(***************************************************************************)
(* Traffic_Signs_Classification.py as a state machine.                     *)
(*                                                                         *)
(* The script is one straight line of statements.  pc names the statement  *)
(* that runs next (by its source line), env is the module namespace        *)
(* (variable name -> value), and every call into pickle, matplotlib,       *)
(* sklearn, numpy or keras is one step.  An exception nobody catches ends  *)
(* the run: pc becomes "fault" and fault records the line and the kind.    *)
(*                                                                         *)
(* Two specifications:                                                     *)
(*   Spec          the script from its first statement (lines 33-80);      *)
(*   SpecPipeline  the statements of lines 94-437, started in the state    *)
(*                 in which lines 47-78 leave the six arrays.              *)
(***************************************************************************)
EXTENDS Integers, Sequences, FiniteSets, TLC

VARIABLES
    disk,       \* the three files under ./traffic-signs-data (input)
    sumOrder,   \* the order in which this numpy build adds along an axis
    pc,         \* the statement to run next, "done" or "fault"
    fault,      \* [line, kind] of the unhandled exception, NoFault before
    env,        \* the module namespace: variable name -> value
    binds,      \* variable name -> how many assignments have bound it
    calls,      \* the library calls made so far that the claims speak of
    figs,       \* pyplot's open figures (the last is the current one),
                \*   each the sequence of artists drawn on it
    shown,      \* the figures plt.show() has rendered, in order
    cnn_model,  \* the Sequential object: layers, compiled, fitted
    printed,    \* what print() has written
    iter        \* the for loop of line 434: the next value of np.arange

vars == <<disk, sumOrder, pc, fault, env, binds, calls, figs, shown, cnn_model, printed, iter>>

(***************************************************************************)
(* Literals of the script.                                                 *)
(***************************************************************************)
SampleIndex == 23       \* i = 23
ChannelDiv == 3         \* X / 3
NormCentre == 128       \* X_gray - 128
NormScale == 128        \* ... / 128
InputSide == 32         \* input_shape = (32, 32, 1)
NumClasses == 43        \* Dense(units = 43, activation = 'softmax')
Epochs == 5             \* epochs = 5
GridLength == 5         \* length = 5
GridWidth == 5          \* width = 5
Uint8Max == 255         \* the pickled features are uint8 arrays

(***************************************************************************)
(* Bounds of the model.                                                    *)
(***************************************************************************)
MaxSeed == 1            \* data sets are generated from the seeds 0..MaxSeed
MaxShort == 2           \* a split holds 25 - MaxShort .. 25 samples
WinRows == 1            \* of every image the model keeps the pixels of
WinCols == 1            \*   rows 0..WinRows-1 and columns 0..WinCols-1
SideSlack == 4          \* an ill-shaped split has images of side 32 - SideSlack
MaxPerm == 2            \* the shuffle draws from MaxPerm + 1 permutations
MaxNet == 1             \* fit leaves one of MaxNet + 1 trained networks

FileNames == <<"train", "valid", "test">>
Keys == {"features", "labels"}

Abs(a) == IF a < 0 THEN -a ELSE a

RECURSIVE Pow2(_)
Pow2(n) == IF n <= 0 THEN 1 ELSE 2 * Pow2(n - 1)

RECURSIVE Log2(_)
Log2(n) == IF n <= 1 THEN 0 ELSE 1 + Log2(n \div 2)

(***************************************************************************)
(* float64.  Every number the preprocessing computes is a binary64 value   *)
(* of the form                                                             *)
(*        (num * 2^54 + err) / (3 * 2^54 * 2^scale)                        *)
(* with small integers num, err and scale, so <<num, err, scale>> stands   *)
(* for it exactly: num / 3 is the value in exact arithmetic and err, in    *)
(* units of 2^-54 / 3, is what rounding to 53 significant bits has added.  *)
(* RoundNearest is IEEE 754 round-to-nearest, ties to even, on that form.  *)
(***************************************************************************)
ErrBits == 54

\* floor(log2 |v|) for v = (num * 2^54 + err) / (3 * 2^54), num # 0
Exponent(num, err) ==
    LET a == Abs(num)
        same == err = 0 \/ ((num > 0) <=> (err > 0))
        j == CHOOSE x \in -2 .. 9 :
                 /\ 3 * Pow2(x + 2) <= 4 * a
                 /\ 4 * a < 3 * Pow2(x + 3)
    IN  IF 4 * a = 3 * Pow2(j + 2) /\ ~same THEN j - 1 ELSE j

RoundNearest(num, err) ==
    IF num = 0
    THEN <<0, err>>  \* a difference of two neighbouring floats: exact
    ELSE LET E == Exponent(num, err)
             g == 3 * Pow2(E + 2)            \* one ulp, 2^(E-52), in units
             t == (ErrBits - 3) - E          \* num * 2^54 = 2^(E+3) * (num * 2^t)
             cof == ((num % 3) * (IF t % 2 = 0 THEN 1 ELSE 2)) % 3
             r2 == (Pow2(E + 3) * cof + err) % (2 * g)
             r == r2 % g
             odd == r2 >= g
             d == IF r = 0 THEN 0
                  ELSE IF 2 * r < g THEN -r
                  ELSE IF 2 * r > g THEN g - r
                  ELSE IF odd THEN g - r ELSE -r
         IN  <<num, err + d>>

\* uint8 / 3: true division of an integer by 3, one rounding
FDiv3(c) == LET q == RoundNearest(c, 0) IN <<q[1], q[2], 0>>

\* x + y of two floats of scale 0, one rounding
FAdd(x, y) == LET q == RoundNearest(x[1] + y[1], x[2] + y[2]) IN <<q[1], q[2], 0>>

\* x - 128 of a float of scale 0, one rounding
FSubCentre(x) ==
    LET q == RoundNearest(x[1] - ChannelDiv * NormCentre, x[2]) IN <<q[1], q[2], 0>>

\* x / 128: a power of two, exact
FDivScale(x) == <<x[1], x[2], x[3] + Log2(NormScale)>>

\* comparisons of a float with an integer n: v <= n, v >= n
FLeqInt(x, n) ==
    LET m == ChannelDiv * n * Pow2(x[3])
    IN  x[1] < m \/ (x[1] = m /\ x[2] <= 0)
FGeqInt(x, n) ==
    LET m == ChannelDiv * n * Pow2(x[3])
    IN  x[1] > m \/ (x[1] = m /\ x[2] >= 0)

(***************************************************************************)
(* numpy arrays.  An image array is [shape |-> <<n, h, w, d>>, data |-> f] *)
(* with f[k][p] the d channel values of image k at pixel p; of the h x w   *)
(* pixels the model keeps those of Window.  A label array is               *)
(* [shape |-> <<n>>, data |-> g] with g[k] the label of sample k.          *)
(* Indices start at 0, as in Python.                                       *)
(***************************************************************************)
Window == (0 .. WinRows - 1) \X (0 .. WinCols - 1)

NoArray == [shape |-> <<0>>, data |-> <<>>]

Size(a) == a.shape[1]

\* a[k] of the source: IndexError unless 0 <= k < len(a)
InRange(a, k) == 0 <= k /\ k < Size(a)

\* the left-to-right and the right-to-left sum of a sequence of floats
RECURSIVE SumLeft(_)
SumLeft(xs) ==
    IF Len(xs) = 1 THEN xs[1]
    ELSE FAdd(SumLeft(SubSeq(xs, 1, Len(xs) - 1)), xs[Len(xs)])
RECURSIVE SumRight(_)
SumRight(xs) ==
    IF Len(xs) = 1 THEN xs[1] ELSE FAdd(xs[1], SumRight(Tail(xs)))

\* numpy adds the three quotients in the order its reduction loop takes
SumOrders == {"left", "right"}
SumAxis(xs, order) == IF order = "left" THEN SumLeft(xs) ELSE SumRight(xs)

\* np.sum(X // 3, ...): floor division in place of true division
GrayPixelFloorDiv(px, order) ==
    << SumAxis([c \in DOMAIN px |-> FDiv3(ChannelDiv * (px[c] \div ChannelDiv))], order) >>
\* np.sum(X / 3, axis = 3, keepdims = True)
GrayPixel(px, order) == << SumAxis([c \in DOMAIN px |-> FDiv3(px[c])], order) >>
Grayscale(X, order) ==
    [shape |-> <<X.shape[1], X.shape[2], X.shape[3], 1>>,
     data  |-> [k \in DOMAIN X.data |->
                  [p \in DOMAIN X.data[k] |-> GrayPixel(X.data[k][p], order)]]]

\* X_gray / 128: the centring forgotten
NormPixelNotCentred(px) == [c \in DOMAIN px |-> FDivScale(px[c])]
\* (X_gray - 128) / 128
NormPixel(px) == [c \in DOMAIN px |-> FDivScale(FSubCentre(px[c]))]
Normalize(G) ==
    [shape |-> G.shape,
     data  |-> [k \in DOMAIN G.data |->
                  [p \in DOMAIN G.data[k] |-> NormPixel(G.data[k][p])]]]

\* a[idx]: the rows of a taken in the order idx
Take(a, idx) ==
    [shape |-> a.shape, data |-> [k \in DOMAIN a.data |-> a.data[idx[k]]]]

\* sklearn.utils.shuffle draws one random permutation of range(n) and
\* indexes every array it is given with it; the model draws it from
\* the identity, the reversal and the rotations by 1 .. MaxPerm - 1.
PermOf(j, n) ==
    [k \in 0 .. n - 1 |->
        IF j = 0 THEN k
        ELSE IF j = MaxPerm THEN n - 1 - k
        ELSE (k + j) % n]
\* shuffle(X_train) alone: the labels keep their order
ShuffleImagesOnly(X, y, j) == <<Take(X, PermOf(j, Size(X))), y>>
ShuffleBoth(X, y, j) == <<Take(X, PermOf(j, Size(X))), Take(y, PermOf(j, Size(X)))>>

(***************************************************************************)
(* The input: what the three pickle files hold.  A file is missing, is no  *)
(* pickle, or unpickles to a mapping; a mapping has some of the keys       *)
(* 'features' and 'labels'.  The arrays are generated from a seed.         *)
(***************************************************************************)
Palette ==
    << <<0, 0, 0>>, <<Uint8Max, Uint8Max, Uint8Max>>, <<0, 1, 4>>,
       <<128, 128, 128>>, <<Uint8Max, 0, 0>>, <<1, 1, 1>>, <<85, 170, 129>> >>

PixelOf(seed, k, p) ==
    Palette[((3 * seed + k + p[1] + 2 * p[2]) % Len(Palette)) + 1]
LabelOf(seed, k) == (seed + 5 * k) % NumClasses

Features(n, side, seed) ==
    [shape |-> <<n, side, side, 3>>,
     data  |-> [k \in 0 .. n - 1 |-> [p \in Window |-> PixelOf(seed, k, p)]]]
Labels(n, seed) ==
    [shape |-> <<n>>, data |-> [k \in 0 .. n - 1 |-> LabelOf(seed, k)]]

GridCount == GridLength * GridWidth
Lens == (GridCount - MaxShort) .. GridCount
Shapes == {<<n, InputSide>> : n \in Lens} \cup {<<GridCount, InputSide - SideSlack>>}
Seeds == 0 .. MaxSeed

Mapping(ks, sh, seed) ==
    [kind |-> "mapping", keys |-> ks,
     features |-> IF "features" \in ks THEN Features(sh[1], sh[2], seed) ELSE NoArray,
     labels   |-> IF "labels" \in ks THEN Labels(sh[1], seed) ELSE NoArray]
\* a mapping whose 'labels' has one entry fewer than 'features' has images
MappingShortLabels(sh, seed) ==
    [Mapping(Keys, sh, seed) EXCEPT !.labels = Labels(sh[1] - 1, seed)]
NoFile == [kind |-> "missing", keys |-> {}, features |-> NoArray, labels |-> NoArray]
BadPickle == [kind |-> "corrupt", keys |-> {}, features |-> NoArray, labels |-> NoArray]

GoodContents == {Mapping(Keys, sh, seed) : sh \in Shapes, seed \in Seeds}
Contents ==
    {NoFile, BadPickle} \cup GoodContents
    \cup {Mapping(ks, <<GridCount, InputSide>>, 0) : ks \in {{"features"}, {"labels"}}}

(***************************************************************************)
(* The namespace, faults, calls and figures.                               *)
(***************************************************************************)
ArrayNames ==
    {"X_train", "y_train", "X_validation", "y_validation", "X_test", "y_test",
     "X_train_gray", "X_validation_gray", "X_test_gray",
     "X_train_gray_norm", "X_validation_gray_norm", "X_test_gray_norm"}
Names ==
    ArrayNames \cup
    {"train", "valid", "test", "i", "history", "score", "accuracy", "loss",
     "valid_loss", "valid_accuracy", "epochs", "predicted_x", "classes_x",
     "y_true", "cm", "length", "width", "fig", "axes", "cnn_model"}

Unbound == <<>>
NoFault == [line |-> 0, kind |-> "none"]
NoModel == [layers |-> <<>>, compiled |-> FALSE, net |-> -1]

\* name = value, for one or two targets
Set1(e, n, v) == [e EXCEPT ![n] = v]
Cnt1(b, n) == [b EXCEPT ![n] = @ + 1]
Set2(e, n1, v1, n2, v2) == [e EXCEPT ![n1] = v1, ![n2] = v2]
Cnt2(b, n1, n2) == [b EXCEPT ![n1] = @ + 1, ![n2] = @ + 1]

Call(fn, args) == [fn |-> fn, args |-> args]

\* an exception nobody handles: the interpreter prints it and exits
Raise(line, kind) ==
    /\ pc' = "fault"
    /\ fault' = [line |-> line, kind |-> kind]

\* the functions the script asks matplotlib.pyplot for and pyplot has
PyplotAttrs ==
    {"imshow", "scatter", "plot", "title", "xlabel", "ylabel", "legend", "show",
     "figure", "subplots"}

\* an artist drawn through pyplot lands on the current figure; pyplot
\* opens a figure when none is open
Draw(fs, artist) ==
    IF fs = <<>> THEN << <<artist>> >>
    ELSE [fs EXCEPT ![Len(fs)] = Append(@, artist)]
RECURSIVE DrawAll(_, _)
DrawAll(fs, artists) ==
    IF artists = <<>> THEN fs
    ELSE DrawAll(Draw(fs, Head(artists)), Tail(artists))

(***************************************************************************)
(* Lines 33-40: the three loads, in the order train, valid, test.          *)
(***************************************************************************)
Load(from, line, file, name, to) ==
    /\ pc = from
    /\ IF disk[file].kind = "missing"
       THEN /\ Raise(line, "FileNotFoundError")
            /\ UNCHANGED <<env, binds, calls>>
       ELSE IF disk[file].kind = "corrupt"
       THEN /\ Raise(line + 1, "UnpicklingError")
            /\ calls' = Append(calls, Call("pickle.load", <<file>>))
            /\ UNCHANGED <<env, binds>>
       ELSE /\ env' = Set1(env, name, disk[file])
            /\ binds' = Cnt1(binds, name)
            /\ calls' = Append(calls, Call("pickle.load", <<file>>))
            /\ pc' = to
            /\ UNCHANGED fault
    /\ UNCHANGED <<disk, sumOrder, figs, shown, cnn_model, printed, iter>>

LoadTrain == Load("L33", 33, "train", "train", "L36")
LoadValid == Load("L36", 36, "valid", "valid", "L39")
LoadTest == Load("L39", 39, "test", "test", "L47")

(***************************************************************************)
(* Lines 47-53: X, y = m['features'], m['labels'].  The right-hand side    *)
(* is evaluated first, 'features' before 'labels'; a key the mapping       *)
(* lacks raises KeyError and nothing is bound.                             *)
(***************************************************************************)
\* key in m, and m.get-like lookup that never raises
HasKeyNeverRaises(m, key) == TRUE
HasKey(m, key) == key \in m.keys
Subscript(m, key) == IF key = "features" THEN m.features ELSE m.labels

Split(from, line, name, X, y, to) ==
    /\ pc = from
    /\ IF HasKey(env[name], "features") /\ HasKey(env[name], "labels")
       THEN /\ env' = Set2(env, X, Subscript(env[name], "features"),
                                y, Subscript(env[name], "labels"))
            /\ binds' = Cnt2(binds, X, y)
            /\ pc' = to
            /\ UNCHANGED fault
       ELSE /\ Raise(line, "KeyError")
            /\ UNCHANGED <<env, binds>>
    /\ UNCHANGED <<disk, sumOrder, calls, figs, shown, cnn_model, printed, iter>>

SplitTrain == Split("L47", 47, "train", "X_train", "y_train", "L50")
SplitValid == Split("L50", 50, "valid", "X_validation", "y_validation", "L53")
SplitTest == Split("L53", 53, "test", "X_test", "y_test", "L56")

(***************************************************************************)
(* Lines 56-63 read the six shapes and drop them; line 72 is i = 23.       *)
(***************************************************************************)
ReadShapes ==
    /\ pc = "L56"
    /\ pc' = "L72"
    /\ UNCHANGED <<disk, sumOrder, fault, env, binds, calls, figs, shown, cnn_model, printed, iter>>

SetIndex ==
    /\ pc = "L72"
    /\ env' = Set1(env, "i", SampleIndex)
    /\ binds' = Cnt1(binds, "i")
    /\ pc' = "L74"
    /\ UNCHANGED <<disk, sumOrder, fault, calls, figs, shown, cnn_model, printed, iter>>

(***************************************************************************)
(* Lines 74-81: plt.<attr>(X[i]) and then y[i].  Python looks the          *)
(* attribute up first (AttributeError when pyplot has no such function),   *)
(* then evaluates X[i] (IndexError when X has no row i), then calls.       *)
(***************************************************************************)
ShowSample(from, line, attr, X, y, to) ==
    /\ pc = from
    /\ IF attr \notin PyplotAttrs
       THEN /\ Raise(line, "AttributeError")
            /\ UNCHANGED <<calls, figs>>
       ELSE IF ~InRange(env[X], env["i"])
       THEN /\ Raise(line, "IndexError")
            /\ UNCHANGED <<calls, figs>>
       ELSE IF ~InRange(env[y], env["i"])
       THEN /\ Raise(line + 1, "IndexError")
            /\ calls' = Append(calls, Call("plt." \o attr, <<X>>))
            /\ figs' = Draw(figs, "image " \o X)
       ELSE /\ calls' = Append(calls, Call("plt." \o attr, <<X>>))
            /\ figs' = Draw(figs, "image " \o X)
            /\ pc' = to
            /\ UNCHANGED fault
    /\ UNCHANGED <<disk, sumOrder, env, binds, shown, cnn_model, printed, iter>>

\* the attribute line 80 asks pyplot for
TestSampleAttrFixed == "imshow"
TestSampleAttr == "imshwo"

ShowTrainSample == ShowSample("L74", 74, "imshow", "X_train", "y_train", "L77")
ShowValidSample == ShowSample("L77", 77, "imshow", "X_validation", "y_validation", "L80")
ShowTestSample == ShowSample("L80", 80, TestSampleAttr, "X_test", "y_test", "L96")

(***************************************************************************)
(* The script from its first statement.  Nothing after line 80 is an       *)
(* action of this specification: no run gets there.                        *)
(***************************************************************************)
Init ==
    /\ disk \in [{"train", "valid", "test"} -> Contents]
    /\ sumOrder \in SumOrders
    /\ pc = "L33"
    /\ fault = NoFault
    /\ env = [n \in Names |-> Unbound]
    /\ binds = [n \in Names |-> 0]
    /\ calls = <<>>
    /\ figs = <<>>
    /\ shown = <<>>
    /\ cnn_model = NoModel
    /\ printed = <<>>
    /\ iter = 0

Next ==
    \/ LoadTrain
    \/ LoadValid
    \/ LoadTest
    \/ SplitTrain
    \/ SplitValid
    \/ SplitTest
    \/ ReadShapes
    \/ SetIndex
    \/ ShowTrainSample
    \/ ShowValidSample
    \/ ShowTestSample

Spec == Init /\ [][Next]_vars

(***************************************************************************)
(* Line 96: X_train, y_train = shuffle(X_train, y_train).  shuffle         *)
(* returns new arrays; the two names are bound a second time.              *)
(***************************************************************************)
Shuffle ==
    /\ pc = "L96"
    /\ \E j \in 0 .. MaxPerm :
         LET r == ShuffleBoth(env["X_train"], env["y_train"], j)
         IN  env' = Set2(env, "X_train", r[1], "y_train", r[2])
    /\ binds' = Cnt2(binds, "X_train", "y_train")
    /\ calls' = Append(calls, Call("shuffle", <<"X_train", "y_train">>))
    /\ pc' = "L99"
    /\ UNCHANGED <<disk, sumOrder, fault, figs, shown, cnn_model, printed, iter>>

(***************************************************************************)
(* Lines 99-109: X_gray = np.sum(X / 3, axis = 3, keepdims = True), then   *)
(* two lines on, plt.imshow(X_gray[i].squeeze(), cmap = 'gray').           *)
(* Lines 112-120: X_gray_norm = (X_gray - 128) / 128, then on the next     *)
(* line plt.imshow(X_gray_norm[i].squeeze(), cmap = 'gray').               *)
(***************************************************************************)
Derive(from, showLine, dst, value, to) ==
    /\ pc = from
    /\ env' = Set1(env, dst, value)
    /\ binds' = Cnt1(binds, dst)
    /\ IF InRange(value, env["i"])
       THEN /\ calls' = Append(calls, Call("plt.imshow", <<dst>>))
            /\ figs' = Draw(figs, "image " \o dst)
            /\ pc' = to
            /\ UNCHANGED fault
       ELSE /\ Raise(showLine, "IndexError")
            /\ UNCHANGED <<calls, figs>>
    /\ UNCHANGED <<disk, sumOrder, shown, cnn_model, printed, iter>>

GrayStep(from, line, src, dst, to) ==
    Derive(from, line + 2, dst, Grayscale(env[src], sumOrder), to)
NormStep(from, line, src, dst, to) ==
    Derive(from, line + 1, dst, Normalize(env[src]), to)

GrayTrain == GrayStep("L99", 99, "X_train", "X_train_gray", "L103")
GrayValid == GrayStep("L103", 103, "X_validation", "X_validation_gray", "L107")
GrayTest == GrayStep("L107", 107, "X_test", "X_test_gray", "L112")
NormTrain == NormStep("L112", 112, "X_train_gray", "X_train_gray_norm", "L116")
NormValid == NormStep("L116", 116, "X_validation_gray", "X_validation_gray_norm", "L119")
\* X_test_gray = (X_test_gray - 128) / 128: the gray array overwritten
NormTestOverwrites == NormStep("L119", 119, "X_test_gray", "X_test_gray", "L170")
NormTest == NormStep("L119", 119, "X_test_gray", "X_test_gray_norm", "L170")

(***************************************************************************)
(* Lines 170-260: cnn_model = Sequential() and the cnn_model.add calls.    *)
(***************************************************************************)
Layer(type, size, kernel, activation) ==
    [type |-> type, size |-> size, kernel |-> kernel, activation |-> activation]

Conv1 == Layer("Conv2D", 6, 5, "relu")              \* line 171
Pool1 == Layer("AveragePooling2D", 0, 2, "none")    \* line 174
Conv2 == Layer("Conv2D", 16, 5, "relu")             \* line 198
Pool2 == Layer("AveragePooling2D", 0, 2, "none")    \* line 201
Flat == Layer("Flatten", 0, 0, "none")              \* line 212
Dense1 == Layer("Dense", 120, 0, "relu")            \* line 231
Dense2 == Layer("Dense", 84, 0, "relu")             \* line 245
Dense3 == Layer("Dense", NumClasses, 0, "softmax")  \* line 260

\* the stack without its two pooling layers
AddCallsWithoutPooling ==
    << <<"L171", Conv1>>, <<"L198", Conv2>>, <<"L212", Flat>>, <<"L231", Dense1>>,
       <<"L245", Dense2>>, <<"L260", Dense3>> >>
\* the add calls of the script, in source order: <<pc, layer>>
AddCalls ==
    << <<"L171", Conv1>>, <<"L174", Pool1>>, <<"L198", Conv2>>, <<"L201", Pool2>>,
       <<"L212", Flat>>, <<"L231", Dense1>>, <<"L245", Dense2>>, <<"L260", Dense3>> >>

NewSequential ==
    /\ pc = "L170"
    /\ cnn_model' = NoModel
    /\ binds' = Cnt1(binds, "cnn_model")
    /\ calls' = Append(calls, Call("Sequential", <<>>))
    /\ pc' = AddCalls[1][1]
    /\ UNCHANGED <<disk, sumOrder, fault, env, figs, shown, printed, iter>>

AddLayer ==
    \E a \in DOMAIN AddCalls :
        /\ pc = AddCalls[a][1]
        /\ cnn_model' = [cnn_model EXCEPT !.layers = Append(@, AddCalls[a][2])]
        /\ calls' = Append(calls, Call("add", <<AddCalls[a][2].type>>))
        /\ pc' = IF a < Len(AddCalls) THEN AddCalls[a + 1][1] ELSE "L283"
        /\ UNCHANGED <<disk, sumOrder, fault, env, binds, figs, shown, printed, iter>>

\* line 283: cnn_model.compile(loss, optimizer, metrics)
Compile ==
    /\ pc = "L283"
    /\ cnn_model' = [cnn_model EXCEPT !.compiled = TRUE]
    /\ calls' = Append(calls, Call("compile", <<>>))
    /\ pc' = "L292"
    /\ UNCHANGED <<disk, sumOrder, fault, env, binds, figs, shown, printed, iter>>

(***************************************************************************)
(* The trained network.  Keras owns the weights; the model knows a         *)
(* trained network only by its output: for an input image, one weight per  *)
(* class (the softmax probability of class c is weight c over the sum of   *)
(* the row).  fit leaves one of the networks 0 .. MaxNet.                  *)
(***************************************************************************)
InputShape == <<InputSide, InputSide, 1>>     \* line 171: input_shape
ShapeOk(X) == <<X.shape[2], X.shape[3], X.shape[4]>> = InputShape
\* fit and evaluate refuse x and y of different sample counts (ValueError)
SameCount(X, y) == Size(X) = Size(y)

\* The shape Keras infers for a layer's output from the shape of its input.
\* Conv2D (padding 'valid', strides (1, 1)): each side shrinks by kernel - 1
\* and the depth is the number of filters.
ConvOutSamePadding(n, k) == n
ConvOut(n, k) == n - k + 1
\* AveragePooling2D (pool_size (2, 2), strides = pool_size, padding
\* 'valid'): the number of whole windows that fit in a side.
PoolOut(n, p) == (n - p) \div p + 1
RECURSIVE Product(_)
Product(shape) == IF shape = <<>> THEN 1 ELSE Head(shape) * Product(Tail(shape))
OutputShape(layer, in) ==
    CASE layer.type = "Conv2D" ->
            <<ConvOut(in[1], layer.kernel), ConvOut(in[2], layer.kernel), layer.size>>
      [] layer.type = "AveragePooling2D" ->
            <<PoolOut(in[1], layer.kernel), PoolOut(in[2], layer.kernel), in[3]>>
      [] layer.type = "Flatten" -> <<Product(in)>>
      [] layer.type = "Dense" -> [in EXCEPT ![Len(in)] = layer.size]
\* the output shape of the first n layers of a stack fed input_shape
RECURSIVE ShapeAfter(_, _)
ShapeAfter(layers, n) ==
    IF n = 0 THEN InputShape ELSE OutputShape(layers[n], ShapeAfter(layers, n - 1))

ImageKey(img) ==
    LET f == img[<<0, 0>>][1] IN Abs(f[1]) + Abs(f[2])
\* the number of nodes of the last layer added
OutputUnits == ShapeAfter(cnn_model.layers, Len(cnn_model.layers))[1]
NetRow(w, img) ==
    [c \in 0 .. OutputUnits - 1 |->
        ((ImageKey(img) + 1) * (c + w + 1) + c * c) % 101]
Outputs(w, X) ==
    [shape |-> <<Size(X), OutputUnits>>,
     data  |-> [k \in DOMAIN X.data |-> NetRow(w, X.data[k])]]

\* the first index that holds the minimum
ArgMin(row) ==
    CHOOSE c \in DOMAIN row :
        /\ \A d \in DOMAIN row : row[d] >= row[c]
        /\ \A d \in DOMAIN row : d < c => row[d] > row[c]
\* np.argmax(row): the first index that holds the maximum
ArgMax(row) ==
    CHOOSE c \in DOMAIN row :
        /\ \A d \in DOMAIN row : row[d] <= row[c]
        /\ \A d \in DOMAIN row : d < c => row[d] < row[c]

\* the 'accuracy' metric: the samples whose most probable class is the
\* label, over all samples, as the pair <<matches, samples>>
Matches(w, X, y) ==
    Cardinality({k \in DOMAIN X.data : ArgMax(NetRow(w, X.data[k])) = y.data[k]})
Accuracy(w, X, y) == <<Matches(w, X, y), Size(X)>>

\* a loss, in thousandths
LossOf(w, e) == 4000 \div (e + w)

\* what fit returns: per metric one entry per epoch
History(w, X, Xv) ==
    [accuracy     |-> [e \in 1 .. Epochs |-> <<(Size(X) * e) \div (Epochs + w), Size(X)>>],
     loss         |-> [e \in 1 .. Epochs |-> LossOf(w, e)],
     val_accuracy |-> [e \in 1 .. Epochs |-> <<(Size(Xv) * e) \div (Epochs + w + 1), Size(Xv)>>],
     val_loss     |-> [e \in 1 .. Epochs |-> LossOf(w, e) + 100]]

\* the fit call validating on the test split
FitArgsValidatesOnTest == <<"X_train_gray_norm", "y_train", "X_test_gray_norm", "y_test">>
\* x, y, validation_data[0], validation_data[1]
FitArgs == <<"X_train_gray_norm", "y_train", "X_validation_gray_norm", "y_validation">>

\* lines 292-297: history = cnn_model.fit(...)
Fit ==
    /\ pc = "L292"
    /\ calls' = Append(calls, Call("fit", FitArgs))
    /\ IF /\ ShapeOk(env[FitArgs[1]]) /\ ShapeOk(env[FitArgs[3]])
          /\ SameCount(env[FitArgs[1]], env[FitArgs[2]])
          /\ SameCount(env[FitArgs[3]], env[FitArgs[4]])
       THEN /\ \E w \in 0 .. MaxNet :
                 /\ cnn_model' = [cnn_model EXCEPT !.net = w]
                 /\ env' = Set1(env, "history", History(w, env[FitArgs[1]], env[FitArgs[3]]))
            /\ binds' = Cnt1(binds, "history")
            /\ pc' = "L306"
            /\ UNCHANGED fault
       ELSE /\ Raise(292, "ValueError")
            /\ UNCHANGED <<env, binds, cnn_model>>
    /\ UNCHANGED <<disk, sumOrder, figs, shown, printed, iter>>

\* line 306: score = cnn_model.evaluate(X_test_gray_norm, y_test)
Evaluate ==
    /\ pc = "L306"
    /\ calls' = Append(calls, Call("evaluate", <<"X_test_gray_norm", "y_test">>))
    /\ IF ShapeOk(env["X_test_gray_norm"]) /\ SameCount(env["X_test_gray_norm"], env["y_test"])
       THEN /\ env' = Set1(env, "score",
                        <<LossOf(cnn_model.net, Epochs),
                          Accuracy(cnn_model.net, env["X_test_gray_norm"], env["y_test"])>>)
            /\ binds' = Cnt1(binds, "score")
            /\ pc' = "L309"
            /\ UNCHANGED fault
       ELSE /\ Raise(306, "ValueError")
            /\ UNCHANGED <<env, binds>>
    /\ UNCHANGED <<disk, sumOrder, figs, shown, cnn_model, printed, iter>>

\* a / b rounded to the nearest integer, ties to even
RoundHalfEven(a, b) ==
    LET q == a \div b
        r == a % b
    IN  IF 2 * r < b THEN q
        ELSE IF 2 * r > b THEN q + 1
        ELSE IF q % 2 = 0 THEN q ELSE q + 1

\* round(score[1] * 100, 2), in hundredths of a percent
PercentMisscaled(acc) == RoundHalfEven(acc[1] * 100 * 100 * 100, acc[2])
Percent(acc) == RoundHalfEven(acc[1] * 100 * 100, acc[2])

\* line 309: print("Test Accuracy: {}%".format(round(score[1] * 100, 2)))
PrintAccuracy ==
    /\ pc = "L309"
    /\ printed' = Append(printed, Percent(env["score"][2]))
    /\ calls' = Append(calls, Call("print", <<"score">>))
    /\ pc' = "L318"
    /\ UNCHANGED <<disk, sumOrder, fault, env, binds, figs, shown, cnn_model, iter>>

\* lines 318-326: the four series of history.history and the epoch axis
ExtractHistory ==
    /\ pc = "L318"
    /\ LET h == env["history"]
       IN  env' = [env EXCEPT !["accuracy"] = h.accuracy,
                              !["loss"] = h.loss,
                              !["valid_loss"] = h.val_loss,
                              !["valid_accuracy"] = h.val_accuracy,
                              !["epochs"] = [e \in 1 .. Len(h.accuracy) |-> e]]
    /\ binds' = [n \in Names |->
                    IF n \in {"accuracy", "loss", "valid_loss", "valid_accuracy", "epochs"}
                    THEN binds[n] + 1 ELSE binds[n]]
    /\ pc' = "L337"
    /\ UNCHANGED <<disk, sumOrder, fault, calls, figs, shown, cnn_model, printed, iter>>

(***************************************************************************)
(* Lines 336-401: six blocks, each drawing on the current figure and       *)
(* ending in plt.show().  show renders every open figure in a window and   *)
(* returns when the windows are closed, which discards the figures.        *)
(***************************************************************************)
PlotBlocks ==
    << <<"L337", "Training Accuracy over Epochs", <<"accuracy">>>>,
       <<"L346", "Training Loss over Epochs", <<"loss">>>>,
       <<"L355", "Validation Accuracy over Epochs", <<"valid_accuracy">>>>,
       <<"L364", "Validation Loss over Epochs", <<"valid_loss">>>>,
       <<"L373", "Training vs. Validation Accuracy", <<"accuracy", "valid_accuracy">>>>,
       <<"L389", "Training vs. Validation Loss", <<"loss", "valid_loss">>>> >>

Curves(series) == [k \in DOMAIN series |-> "curve " \o series[k]]

PlotAndShow ==
    \E b \in DOMAIN PlotBlocks :
        /\ pc = PlotBlocks[b][1]
        /\ LET drawn == DrawAll(figs, Curves(PlotBlocks[b][3]) \o <<"title " \o PlotBlocks[b][2]>>)
           IN  /\ shown' = shown \o drawn
               /\ figs' = <<>>
        /\ calls' = Append(calls, Call("plt.show", PlotBlocks[b][3]))
        /\ pc' = IF b < Len(PlotBlocks) THEN PlotBlocks[b + 1][1] ELSE "L409"
        /\ UNCHANGED <<disk, sumOrder, fault, env, binds, cnn_model, printed, iter>>

(***************************************************************************)
(* Lines 409-420: the predictions and the confusion matrix.                *)
(***************************************************************************)
\* line 409: predicted_x = cnn_model.predict(X_test_gray_norm)
Predict ==
    /\ pc = "L409"
    /\ calls' = Append(calls, Call("predict", <<"X_test_gray_norm">>))
    /\ IF ShapeOk(env["X_test_gray_norm"])
       THEN /\ env' = Set1(env, "predicted_x", Outputs(cnn_model.net, env["X_test_gray_norm"]))
            /\ binds' = Cnt1(binds, "predicted_x")
            /\ pc' = "L410"
            /\ UNCHANGED fault
       ELSE /\ Raise(409, "ValueError")
            /\ UNCHANGED <<env, binds>>
    /\ UNCHANGED <<disk, sumOrder, figs, shown, cnn_model, printed, iter>>

\* np.argmax(predicted_x, axis = 1)
ArgMaxRows(P) ==
    [shape |-> <<Size(P)>>, data |-> [k \in DOMAIN P.data |-> ArgMax(P.data[k])]]

\* lines 410-412: classes_x = np.argmax(predicted_x, axis = 1); y_true = y_test
Classes ==
    /\ pc = "L410"
    /\ env' = Set2(env, "classes_x", ArgMaxRows(env["predicted_x"]), "y_true", env["y_test"])
    /\ binds' = Cnt2(binds, "classes_x", "y_true")
    /\ pc' = "L417"
    /\ UNCHANGED <<disk, sumOrder, fault, calls, figs, shown, cnn_model, printed, iter>>

\* sklearn's confusion_matrix: rows and columns are the labels that occur
\* in either array; entry <<t, p>> counts the samples of label t predicted p
ConfusionMatrix(yt, yp) ==
    LET seen == {yt.data[k] : k \in DOMAIN yt.data} \cup {yp.data[k] : k \in DOMAIN yp.data}
    IN  [tp \in seen \X seen |->
            Cardinality({k \in DOMAIN yt.data : yt.data[k] = tp[1] /\ yp.data[k] = tp[2]})]

\* lines 415-420: cm = confusion_matrix(y_true, classes_x); plt.figure(...)
\* opens a new figure and sns.heatmap draws on it.  No plt.show() follows.
Heatmap ==
    /\ pc = "L417"
    /\ env' = Set1(env, "cm", ConfusionMatrix(env["y_true"], env["classes_x"]))
    /\ binds' = Cnt1(binds, "cm")
    /\ figs' = Append(figs, <<"heatmap cm">>)
    /\ calls' = calls \o <<Call("confusion_matrix", <<"y_true", "classes_x">>),
                           Call("sns.heatmap", <<"cm">>)>>
    /\ pc' = "L428"
    /\ UNCHANGED <<disk, sumOrder, fault, shown, cnn_model, printed, iter>>

(***************************************************************************)
(* Lines 428-437: the grid of sample predictions.  plt.subplots opens a    *)
(* new figure of length * width axes; axes is bound by line 431 and again  *)
(* by line 432 (axes.ravel()).  The for statement binds i to 0, 1, ..;     *)
(* its body draws X_test[i] on axes[i] and titles it with classes_x[i] and *)
(* y_true[i].  No plt.show() follows the loop.                             *)
(***************************************************************************)
Subplots ==
    /\ pc = "L428"
    /\ env' = [env EXCEPT !["length"] = GridLength, !["width"] = GridWidth,
                          !["fig"] = Len(figs) + 1,
                          !["axes"] = GridLength * GridWidth]
    /\ binds' = [n \in Names |->
                    IF n \in {"length", "width", "fig"} THEN binds[n] + 1
                    ELSE IF n = "axes" THEN binds[n] + 2
                    ELSE binds[n]]
    /\ figs' = Append(figs, <<>>)
    /\ calls' = Append(calls, Call("plt.subplots", <<"length", "width">>))
    /\ iter' = 0
    /\ pc' = "L434"
    /\ UNCHANGED <<disk, sumOrder, fault, shown, cnn_model, printed>>

GridCell ==
    /\ pc = "L434"
    /\ iter < env["length"] * env["width"]
    /\ env' = Set1(env, "i", iter)
    /\ binds' = Cnt1(binds, "i")
    /\ iter' = iter + 1
    /\ IF InRange(env["X_test"], iter) /\ InRange(env["classes_x"], iter)
          /\ InRange(env["y_true"], iter)
       THEN /\ figs' = Draw(figs, "cell X_test")
            /\ calls' = calls \o <<Call("axes.imshow", <<"X_test">>),
                                   Call("axes.set_title", <<"classes_x", "y_true">>)>>
            /\ UNCHANGED <<pc, fault>>
       ELSE /\ Raise(IF InRange(env["X_test"], iter) THEN 436 ELSE 435, "IndexError")
            /\ calls' = IF InRange(env["X_test"], iter)
                        THEN Append(calls, Call("axes.imshow", <<"X_test">>))
                        ELSE calls
            /\ UNCHANGED figs
    /\ UNCHANGED <<disk, sumOrder, shown, cnn_model, printed>>

\* the loop is exhausted: the script ends and the interpreter exits
Finish ==
    /\ pc = "L434"
    /\ iter = env["length"] * env["width"]
    /\ pc' = "done"
    /\ UNCHANGED <<disk, sumOrder, fault, env, binds, calls, figs, shown, cnn_model,
                   printed, iter>>

(***************************************************************************)
(* Lines 94-437 on their own, started in the state in which lines 33-78    *)
(* leave the namespace when the three files hold well-formed data and the  *)
(* training and validation splits have a sample 23.  At most one split     *)
(* departs from the nominal 25 samples of 32 x 32 pixels, or the test file *)
(* holds one label fewer than images.                                      *)
(***************************************************************************)
NominalShape == <<GridCount, InputSide>>
ShapeTriples ==
    {t \in Shapes \X Shapes \X Shapes :
        /\ t[1][1] > SampleIndex
        /\ t[2][1] > SampleIndex
        /\ Cardinality({s \in 1 .. 3 : t[s] # NominalShape}) <= 1}
PipelineDisks ==
    {[train |-> Mapping(Keys, t[1], seed),
      valid |-> Mapping(Keys, t[2], (seed + 1) % (MaxSeed + 1)),
      test  |-> Mapping(Keys, t[3], seed)] : t \in ShapeTriples, seed \in Seeds}
    \cup
    {[train |-> Mapping(Keys, NominalShape, seed),
      valid |-> Mapping(Keys, NominalShape, (seed + 1) % (MaxSeed + 1)),
      test  |-> MappingShortLabels(NominalShape, seed)] : seed \in Seeds}

\* the namespace, the bind counts, the calls and the figures after line 78
After78(d) ==
    [env |-> [n \in Names |->
                CASE n = "train" -> d["train"]
                  [] n = "valid" -> d["valid"]
                  [] n = "test" -> d["test"]
                  [] n = "X_train" -> d["train"].features
                  [] n = "y_train" -> d["train"].labels
                  [] n = "X_validation" -> d["valid"].features
                  [] n = "y_validation" -> d["valid"].labels
                  [] n = "X_test" -> d["test"].features
                  [] n = "y_test" -> d["test"].labels
                  [] n = "i" -> SampleIndex
                  [] OTHER -> Unbound],
     binds |-> [n \in Names |->
                  IF n \in {"train", "valid", "test", "X_train", "y_train", "X_validation",
                            "y_validation", "X_test", "y_test", "i"}
                  THEN 1 ELSE 0],
     calls |-> <<Call("pickle.load", <<"train">>), Call("pickle.load", <<"valid">>),
                 Call("pickle.load", <<"test">>), Call("plt.imshow", <<"X_train">>),
                 Call("plt.imshow", <<"X_validation">>)>>,
     figs |-> << <<"image X_train", "image X_validation">> >>]

PipelineInit ==
    /\ disk \in PipelineDisks
    /\ sumOrder \in SumOrders
    /\ pc = "L96"
    /\ fault = NoFault
    /\ env = After78(disk).env
    /\ binds = After78(disk).binds
    /\ calls = After78(disk).calls
    /\ figs = After78(disk).figs
    /\ shown = <<>>
    /\ cnn_model = NoModel
    /\ printed = <<>>
    /\ iter = 0

PipelineNext ==
    \/ Shuffle
    \/ GrayTrain
    \/ GrayValid
    \/ GrayTest
    \/ NormTrain
    \/ NormValid
    \/ NormTest
    \/ NewSequential
    \/ AddLayer
    \/ Compile
    \/ Fit
    \/ Evaluate
    \/ PrintAccuracy
    \/ ExtractHistory
    \/ PlotAndShow
    \/ Predict
    \/ Classes
    \/ Heatmap
    \/ Subplots
    \/ GridCell
    \/ Finish

SpecPipeline == PipelineInit /\ [][PipelineNext]_vars

\* Spec reaches line 80 exactly in the states SpecPipeline starts from
HeadLeavesAfter78 ==
    pc = "L80" =>
        /\ env = After78(disk).env
        /\ binds = After78(disk).binds
        /\ calls = After78(disk).calls
        /\ figs = After78(disk).figs

(***************************************************************************)
(* What the claims speak of.                                               *)
(***************************************************************************)
Ended == pc \in {"done", "fault"}
Files == {"train", "valid", "test"}

\* the calls made so far to the functions fns, in order, by name
CallsTo(fns) ==
    LET sel == SelectSeq(calls, LAMBDA c : c.fn \in fns)
    IN  [k \in DOMAIN sel |-> sel[k].fn]

\* file f unpickles to a mapping with both keys
Usable(f) == disk[f].kind = "mapping" /\ Keys \subseteq disk[f].keys
\* ... holding the nominal 25 samples of 32 x 32 x 3
Nominal(f) == Usable(f) /\ disk[f].features.shape = <<GridCount, InputSide, InputSide, 3>>

(***************************************************************************)
(* C1.  A run performs load, derive, build, fit, evaluate, predict, plots  *)
(* in this order, no step skipped: a run over three nominal files has,     *)
(* when it ends, derived the normalized arrays, compiled the model and     *)
(* called fit, evaluate and predict once each, in this order.              *)
(* The script violates it: the run ends at line 80.                        *)
(***************************************************************************)
C1_RunPerformsAllSteps ==
    (Ended /\ \A f \in Files : Nominal(f)) =>
        /\ CallsTo({"pickle.load"}) = <<"pickle.load", "pickle.load", "pickle.load">>
        /\ binds["X_train_gray_norm"] = 1
        /\ binds["X_validation_gray_norm"] = 1
        /\ binds["X_test_gray_norm"] = 1
        /\ cnn_model.compiled
        /\ CallsTo({"fit", "evaluate", "predict"}) = <<"fit", "evaluate", "predict">>

(***************************************************************************)
(* C2 as stated.  Whenever the three files load and expose 'features' and  *)
(* 'labels', the run ends in the fault of line 80, the call of the         *)
(* misspelled plt.imshwo.                                                  *)
(***************************************************************************)
TypoFault == [line |-> 80, kind |-> "AttributeError"]

C2_AlwaysFaultsAtTypo ==
    (Ended /\ \A f \in Files : Usable(f)) => fault = TypoFault

(***************************************************************************)
(* C2 as amended.  Whenever the three files load and expose both keys,     *)
(* the run ends in a fault at line 80 or before it; it is the fault of     *)
(* line 80 whenever the training and the validation split have a sample    *)
(* 23, and an IndexError of lines 74-78 otherwise.  No statement after     *)
(* line 80 is ever executed: the run never leaves the statements of lines  *)
(* 33-80 other than by a fault, and it is never stuck before one.          *)
(***************************************************************************)
HeadLabels == {"L33", "L36", "L39", "L47", "L50", "L53", "L56", "L72", "L74", "L77", "L80"}

C2_FaultsAtOrBeforeTypo ==
    /\ pc \in HeadLabels \cup {"fault"}
    /\ pc \in HeadLabels => ENABLED Next
    /\ (Ended /\ \A f \in Files : Usable(f)) =>
          IF Size(disk["train"].features) > SampleIndex
             /\ Size(disk["valid"].features) > SampleIndex
          THEN fault = TypoFault
          ELSE fault.kind = "IndexError" /\ fault.line \in 74 .. 78

C2_Witness ==
    /\ pc = "fault"
    /\ fault = TypoFault
    /\ binds["X_test"] = 1
    /\ CallsTo({"plt.imshow"}) = <<"plt.imshow", "plt.imshow">>

(***************************************************************************)
(* C3.  If a file is missing, is no pickle or lacks a key, the run ends    *)
(* in the fault of a load or of a key lookup of such a file                *)
(* (FileNotFoundError at the open, UnpicklingError at the load, KeyError   *)
(* at the lookup); no file is loaded twice, nothing past the lookups       *)
(* runs, and the loads go train, valid, test before any lookup, so a       *)
(* load that faults finds every earlier file loaded.                       *)
(***************************************************************************)
OpenLine(f) == IF f = "train" THEN 33 ELSE IF f = "valid" THEN 36 ELSE 39
LookupLine(f) == IF f = "train" THEN 47 ELSE IF f = "valid" THEN 50 ELSE 53
Earlier(f) == IF f = "train" THEN {} ELSE IF f = "valid" THEN {"train"} ELSE {"train", "valid"}

FaultOfFile(f) ==
    \/ disk[f].kind = "missing" /\ fault = [line |-> OpenLine(f), kind |-> "FileNotFoundError"]
    \/ disk[f].kind = "corrupt" /\ fault = [line |-> OpenLine(f) + 1, kind |-> "UnpicklingError"]
    \/ /\ disk[f].kind = "mapping"
       /\ ~(Keys \subseteq disk[f].keys)
       /\ fault = [line |-> LookupLine(f), kind |-> "KeyError"]
       /\ \A g \in Files : binds[g] = 1

C3_DefectiveFileStopsRun ==
    (\E f \in Files : ~Usable(f)) =>
        /\ pc \in {"L33", "L36", "L39", "L47", "L50", "L53", "fault"}
        /\ pc # "fault" => ENABLED Next
        /\ pc = "fault" =>
              \E f \in Files :
                  /\ FaultOfFile(f)
                  /\ \A g \in Earlier(f) : binds[g] = 1
        /\ \A k \in DOMAIN calls : calls[k] = Call("pickle.load", <<FileNames[k]>>)
        /\ \A n \in Names \ Files : binds[n] <= 1
        /\ \A n \in {"i", "history", "score", "predicted_x", "cnn_model"} : binds[n] = 0
        /\ figs = <<>> /\ shown = <<>> /\ printed = <<>> /\ cnn_model = NoModel

C3_Witness ==
    /\ pc = "fault"
    /\ fault = [line |-> 39, kind |-> "FileNotFoundError"]
    /\ binds["train"] = 1
    /\ binds["valid"] = 1
    /\ ~Usable("train")

(***************************************************************************)
(* C4.  A run that goes to completion has rendered eight result plots, in  *)
(* this order: the six curve plots, the confusion-matrix heatmap and the   *)
(* grid of sample predictions.  The statements violate it: plt.show() is   *)
(* called six times, and the two figures opened after the last call are    *)
(* still unshown when the script ends.                                     *)
(***************************************************************************)
ResultPlots ==
    <<"title Training Accuracy over Epochs", "title Training Loss over Epochs",
      "title Validation Accuracy over Epochs", "title Validation Loss over Epochs",
      "title Training vs. Validation Accuracy", "title Training vs. Validation Loss",
      "heatmap cm", "cell X_test">>

Holds(figure, artist) == \E a \in DOMAIN figure : figure[a] = artist

C4_EightPlotsShown ==
    pc = "done" =>
        /\ Len(shown) = Len(ResultPlots)
        /\ \A k \in DOMAIN shown : Holds(shown[k], ResultPlots[k])

(***************************************************************************)
(* C5.  For every split, the grayscale array has the image count, height   *)
(* and width of its source and depth 1, with one value per pixel, and      *)
(* every value of the normalized array lies in [-1, 1].                    *)
(***************************************************************************)
SplitArrays ==
    << <<"X_train", "X_train_gray", "X_train_gray_norm">>,
       <<"X_validation", "X_validation_gray", "X_validation_gray_norm">>,
       <<"X_test", "X_test_gray", "X_test_gray_norm">> >>

C5_GrayDepthOneNormInRange ==
    \A s \in DOMAIN SplitArrays :
        LET X == env[SplitArrays[s][1]]
            G == env[SplitArrays[s][2]]
            N == env[SplitArrays[s][3]]
        IN  /\ binds[SplitArrays[s][2]] > 0 =>
                  /\ G.shape = <<X.shape[1], X.shape[2], X.shape[3], 1>>
                  /\ \A k \in DOMAIN G.data : \A p \in Window : Len(G.data[k][p]) = 1
            /\ binds[SplitArrays[s][3]] > 0 =>
                  /\ N.shape = G.shape
                  /\ \A k \in DOMAIN N.data : \A p \in Window :
                        \A c \in DOMAIN N.data[k][p] :
                            /\ FGeqInt(N.data[k][p][c], -1)
                            /\ FLeqInt(N.data[k][p][c], 1)

\* all three normalized arrays exist, a black pixel has become exactly -1
C5_Witness ==
    /\ pc = "L170"
    /\ \A s \in DOMAIN SplitArrays : binds[SplitArrays[s][3]] = 1
    /\ \E k \in DOMAIN env["X_test_gray_norm"].data :
          /\ env["X_test"].data[k][<<0, 0>>] = <<0, 0, 0>>
          /\ env["X_test_gray_norm"].data[k][<<0, 0>>] = << <<-(ChannelDiv * NormCentre), 0, Log2(NormScale)>> >>
    /\ \E k \in DOMAIN env["X_train_gray_norm"].data :
          /\ env["X_train"].data[k][<<0, 0>>] = <<Uint8Max, Uint8Max, Uint8Max>>
          /\ ~FLeqInt(env["X_train_gray_norm"].data[k][<<0, 0>>][1], 0)

(***************************************************************************)
(* C6.  Every accuracy the script obtains lies in [0, 1]: score[1] and     *)
(* every entry of the 'accuracy' and 'val_accuracy' series; the printed    *)
(* percentage lies in [0, 100].  An accuracy is the pair <<matches,        *)
(* samples>>, the printed value is in hundredths of a percent.             *)
(***************************************************************************)
InUnitRange(a) == 0 <= a[1] /\ a[1] <= a[2] /\ a[2] > 0

Shuffled == {"X_train", "y_train"}

Pairs(X, y) == [k \in DOMAIN X.data |-> <<X.data[k], y.data[k]>>]
Count(ps, v) == Cardinality({j \in DOMAIN ps : ps[j] = v})

Transformed(img) ==
    [p \in DOMAIN img |-> NormPixel(GrayPixel(img[p], sumOrder))]

C9_ShuffleKeepsPairs ==
    binds["X_train"] = 2 =>
        LET now == Pairs(env["X_train"], env["y_train"])
            loaded == Pairs(disk["train"].features, disk["train"].labels)
        IN  /\ binds["y_train"] = 2
            /\ DOMAIN now = DOMAIN loaded
            /\ DOMAIN env["y_train"].data = DOMAIN loaded
            /\ \A k \in DOMAIN now : Count(now, now[k]) = Count(loaded, now[k])
            /\ binds["X_train_gray_norm"] > 0 =>
                  /\ DOMAIN env["X_train_gray_norm"].data = DOMAIN loaded
                  /\ \A k \in DOMAIN loaded :
                        \E j \in DOMAIN loaded :
                            /\ loaded[j][2] = env["y_train"].data[k]
                            /\ env["X_train_gray_norm"].data[k] = Transformed(loaded[j][1])

\* fit has been called on arrays whose order is not the loaded one
C9_Witness ==
    /\ pc = "L306"
    /\ CallsTo({"fit"}) = <<"fit">>
    /\ calls[Len(calls)] = Call("fit", FitArgs)
    /\ env["y_train"] # disk["train"].labels
    /\ env["X_train"] # disk["train"].features

(***************************************************************************)
(* C10 as stated.  For every image and pixel of the three splits the gray  *)
(* value equals (R + G + B) / 3, as the exact quotient or as the float64   *)
(* nearest to it.                                                          *)
(***************************************************************************)
ChannelSum(px) == px[1] + px[2] + px[3]
ExactAverage(px) == <<ChannelSum(px), 0, 0>>
NearestAverage(px) == LET q == RoundNearest(ChannelSum(px), 0) IN <<q[1], q[2], 0>>

Positions ==
    {<<s, k, p>> \in (DOMAIN SplitArrays) \X (0 .. GridCount - 1) \X Window :
        binds[SplitArrays[s][3]] > 0 /\ k \in DOMAIN env[SplitArrays[s][3]].data}
Source(q) == env[SplitArrays[q[1]][1]].data[q[2]][q[3]]
Gray(q) == env[SplitArrays[q[1]][2]].data[q[2]][q[3]]
Norm(q) == env[SplitArrays[q[1]][3]].data[q[2]][q[3]]

DocShapes ==
    << <<32, 32, 1>>, <<28, 28, 6>>, <<14, 14, 6>>, <<10, 10, 16>>, <<5, 5, 16>>,
       <<400>>, <<120>>, <<84>>, <<43>> >>

C11_ShapesAsDocumented ==
    LET L == cnn_model.layers
    IN  /\ Len(L) < Len(DocShapes)
        /\ \A n \in 0 .. Len(L) :
              /\ ShapeAfter(L, n) = DocShapes[n + 1]
              /\ \A d \in DOMAIN ShapeAfter(L, n) : ShapeAfter(L, n)[d] > 0
        /\ \A n \in 1 .. Len(L) :
              LET in == ShapeAfter(L, n - 1)
                  out == ShapeAfter(L, n)
              IN  /\ L[n].type = "AveragePooling2D" =>
                        /\ in[1] % 2 = 0 /\ in[2] % 2 = 0
                        /\ 2 * out[1] = in[1] /\ 2 * out[2] = in[2]
                        /\ out[3] = in[3]
                  /\ L[n].type = "Conv2D" =>
                        /\ L[n].kernel = 5
                        /\ out[1] = (in[1] - 5) + 1 /\ out[2] = (in[2] - 5) + 1
        /\ cnn_model.compiled =>
              /\ Len(L) = Len(DocShapes) - 1
              /\ ShapeAfter(L, Len(L)) = <<NumClasses>>
              /\ NumClasses = 43

\* the whole stack has been added and compiled, ending in 43 nodes
C11_Witness ==
    /\ cnn_model.compiled
    /\ Len(cnn_model.layers) = 8
    /\ ShapeAfter(cnn_model.layers, 4) = <<5, 5, 16>>
    /\ ShapeAfter(cnn_model.layers, 5) = <<400>>
    /\ ShapeAfter(cnn_model.layers, 8) = <<43>>


(***************************************************************************)
(* C12.  The network never trains on the test split.  The test features    *)
(* and labels (X_test, y_test, the arrays derived from them and the alias  *)
(* y_true) are arguments only of evaluate, of predict and of the calls     *)
(* that plot (the sample images, the grid, and the confusion matrix the    *)
(* heat map shows); never of fit.  The one fit call gets the normalized    *)
(* training images and the training labels as x and y and the normalized   *)
(* validation images and labels as validation_data, and no validation      *)
(* array as x or y.  When fit and evaluate return, the arrays behind these *)
(* names come from the file of the same split.                             *)
(***************************************************************************)
TestArrays == {"X_test", "y_test", "X_test_gray", "X_test_gray_norm", "y_true"}
ValidationArrays ==
    {"X_validation", "y_validation", "X_validation_gray", "X_validation_gray_norm"}
PlotCalls == {"plt.imshow", "axes.imshow", "axes.set_title", "confusion_matrix", "sns.heatmap"}
ArgsOf(c) == {c.args[k] : k \in DOMAIN c.args}
FitCalls == {k \in DOMAIN calls : calls[k].fn = "fit"}

C12_TestSplitNeverTrained ==
    /\ \A k \in DOMAIN calls :
          ArgsOf(calls[k]) \cap TestArrays # {} =>
              calls[k].fn \in {"evaluate", "predict"} \cup PlotCalls
    /\ Cardinality(FitCalls) <= 1
    /\ \A k \in FitCalls :
          /\ calls[k].args =
                <<"X_train_gray_norm", "y_train", "X_validation_gray_norm", "y_validation">>
          /\ {calls[k].args[1], calls[k].args[2]} \cap (ValidationArrays \cup TestArrays) = {}
    \* fit has just returned: what it was given
    /\ pc = "L306" =>
          /\ env["X_train_gray_norm"] = Normalize(Grayscale(env["X_train"], sumOrder))
          /\ Size(env["X_train"]) = Size(disk["train"].features)
          /\ \A j \in DOMAIN env["X_train"].data :
                \E o \in DOMAIN disk["train"].features.data :
                    /\ env["X_train"].data[j] = disk["train"].features.data[o]
                    /\ env["y_train"].data[j] = disk["train"].labels.data[o]
          /\ env["X_validation_gray_norm"] =
                Normalize(Grayscale(disk["valid"].features, sumOrder))
          /\ env["y_validation"] = disk["valid"].labels
    \* evaluate has just returned: what it was given
    /\ pc = "L309" =>
          /\ env["X_test_gray_norm"] = Normalize(Grayscale(disk["test"].features, sumOrder))
          /\ env["y_test"] = disk["test"].labels

\* a finished run: fit, evaluate and predict were called and the grid drew
\* the test images
C12_Witness ==
    /\ pc = "done"
    /\ Cardinality(FitCalls) = 1
    /\ \E k \in DOMAIN calls : calls[k] = Call("evaluate", <<"X_test_gray_norm", "y_test">>)
    /\ \E k \in DOMAIN calls : calls[k] = Call("predict", <<"X_test_gray_norm">>)
    /\ \E k \in DOMAIN calls : calls[k] = Call("axes.imshow", <<"X_test">>)
    /\ \E k \in DOMAIN calls : calls[k] = Call("confusion_matrix", <<"y_true", "classes_x">>)


(***************************************************************************)
(* C13.  Prediction yields one class per test sample, each a class index   *)
(* in 0..42: once classes_x is bound it has as many entries as y_test,     *)
(* predicted_x has one row of 43 entries per test image, and classes_x[k]  *)
(* is an index of row k at which the row is maximal.                       *)
(***************************************************************************)
C13_OneValidClassPerSample ==
    /\ binds["predicted_x"] > 0 =>
          /\ env["predicted_x"].shape = <<Size(env["X_test"]), 43>>
          /\ DOMAIN env["predicted_x"].data = DOMAIN env["X_test"].data
          /\ \A k \in DOMAIN env["predicted_x"].data :
                DOMAIN env["predicted_x"].data[k] = 0 .. 42
    /\ binds["classes_x"] > 0 =>
          /\ env["classes_x"].shape = env["y_test"].shape
          /\ DOMAIN env["classes_x"].data = DOMAIN env["y_test"].data
          /\ \A k \in DOMAIN env["classes_x"].data :
                LET row == env["predicted_x"].data[k]
                    c == env["classes_x"].data[k]
                IN  /\ c \in 0 .. 42
                    /\ \A d \in DOMAIN row : row[d] <= row[c]

\* classes_x is bound, and the network does not predict one class for all
\* the test samples
C13_Witness ==
    /\ binds["classes_x"] = 1
    /\ Size(env["classes_x"]) = GridCount
    /\ \E j, k \in DOMAIN env["classes_x"].data :
          env["classes_x"].data[j] # env["classes_x"].data[k]


(***************************************************************************)
(* C14.  Training runs for 45 epochs: once fit has returned, each of the   *)
(* four series of history.history (accuracy, loss, val_accuracy, val_loss) *)
(* has 45 entries, and once the epoch axis is bound it is 1, 2, .., 45.    *)
(***************************************************************************)
C14_FortyFiveEpochs ==
    /\ binds["history"] > 0 =>
          /\ Len(env["history"].accuracy) = 45
          /\ Len(env["history"].loss) = 45
          /\ Len(env["history"].val_accuracy) = 45
          /\ Len(env["history"].val_loss) = 45
    /\ binds["epochs"] > 0 => env["epochs"] = [e \in 1 .. 45 |-> e]

====
